---- MODULE Spec2Model ----
(***************************************************************************)
(* Model of the observable cell of src/src/observable.ts (BasicObservable) *)
(* and of its derived binding (bind).                                      *)
(*                                                                         *)
(* Scheduling.  JavaScript runs one handler at a time.  An action of this  *)
(* module is one synchronous run: a public method called by the user, a   *)
(* timer callback, or the continuation of a suspended _notify after the    *)
(* awaited subscriber has completed.  A subscriber may return a pending    *)
(* completion (Subscriber<T> = ... => Promise<void> | void), so a          *)
(* suspended _notify may be resumed at any later point, in any order with  *)
(* respect to the other suspended notifications and the user's calls.      *)
(*                                                                         *)
(* Time.  Durations are abstracted: a timer that has been started and has  *)
(* not fired yet is "pending"; "less than D after" means "while the timer  *)
(* started for D is still pending".                                        *)
(***************************************************************************)
EXTENDS Integers, Sequences, FiniteSets, TLC

\* ------------------------------------------------------------------ bounds
MaxVal == 1
MaxSubs == 2
MaxTasks == 1
MaxHist == 2
\* the larger bounds of the specifications about overlapping notifications
MaxInFlight == 2
MaxLog == 3
MaxUpdates == 2

\* ------------------------------------------------------------- vocabulary
Cells == {"a", "b", "t"}
Values == 0..MaxVal
\* the value JavaScript yields for this._history[-1]: undefined
Undefined == 0 - 1
\* subscriber functions handed to subscribe() by the user
PlainSubs == {"s1", "s2"}
\* a subscriber that stores the new value it receives: (v) => { seen = v }
Recorder == "rec"
\* a subscriber that raises an error: async () => { throw new Error() }
Thrower == "bad"
\* the closures bind() registers on its dependencies a and b
BindSubs == {"bindA", "bindB"}
Dependencies == <<"a", "b">>
BindSubOf(dep) == IF dep = "a" THEN "bindA" ELSE "bindB"
\* the closures of a bind whose compute raises an error
FailSubs == {"failA", "failB"}
FailSubOf(dep) == IF dep = "a" THEN "failA" ELSE "failB"
\* the functions whose call ends in an error
Throws(s) == s = Thrower \/ s \in FailSubs

VARIABLES
  state,            \* _state of every cell
  subscribers,      \* _subscribers of every cell
  value,            \* _value of every cell
  history,          \* _history of every cell
  options,          \* _options of every cell: is throttle / debounce set
  debounceTimeout,  \* the pending debounce timer of every cell and its closure
  throttleTimeout,  \* TRUE while the throttle timer of the cell is active
  tasks,            \* the _notify runs suspended at an await
  handles,          \* the unsubscribe closures subscribe() has returned
  binding,          \* "none", "active" (bind returned), "torn" (teardown called),
                    \* "failed" (bind raised the error of compute)
  bypassed,         \* how the binding has been bypassed since bind returned
  lastOp,           \* the handler that ran last, its input and its outcome
  element,          \* inputElement.value of the input-bound cell
  seen,             \* the variable the recording subscriber stores into
  limits            \* the bounds of the specification in force

vars == <<state, subscribers, value, history, options, debounceTimeout,
          throttleTimeout, tasks, handles, binding, bypassed, lastOp,
          element, seen, limits>>

NoTimer == [pending |-> FALSE, newValue |-> 0, oldValue |-> 0, first |-> 0]

\* The mutable part of the program's state, threaded through the nested calls
\* of one handler; out collects the subscriber invocations the handler makes.
Cur ==
  [state |-> state, subscribers |-> subscribers, value |-> value,
   history |-> history, debounceTimeout |-> debounceTimeout,
   throttleTimeout |-> throttleTimeout, tasks |-> tasks, out |-> <<>>,
   element |-> element, seen |-> seen, err |-> <<>>]

Call(s, c, new, old) == [sub |-> s, cell |-> c, newValue |-> new, oldValue |-> old]

\* a pure compute function of two sources, as in README.md's example
compute(args) == 2 * args[1] + args[2]

\* mutant of DependencyValues: the inner dependency is the outer loop's first one
DependencyValuesOfFirst(S) == [i \in 1..Len(Dependencies) |-> S.value[Dependencies[1]]]

\* dependencies.map((dependency) => dependency.value)
DependencyValues(S) == [i \in 1..Len(Dependencies) |-> S.value[Dependencies[i]]]

\* --------------------------------------------------------- BasicObservable
\* TRUE when _checkForSealedMutationError throws
checkForSealedMutationError(S, c) == S.state[c] = "sealed"

\* this._history.push(newValue)
HistoryPush(S, c, new) == [S EXCEPT !.history[c] = Append(@, new)]

RECURSIVE Invoke(_, _, _, _, _)
RECURSIVE Deliver(_, _, _, _)
RECURSIVE notify(_, _, _, _)
RECURSIVE set(_, _, _)
RECURSIVE InvokeAll(_, _, _, _, _)

\* subscriber(newValue, oldValue): a user's subscriber only observes its
\* arguments; a closure of bind recomputes the target from all dependencies;
\* the recorder stores the new value; a failing function leaves an error.
Invoke(S, c, s, new, old) ==
  LET S1 == [S EXCEPT !.out = Append(@, Call(s, c, new, old))]
  IN IF s \in BindSubs
       THEN set(S1, "t", compute(DependencyValues(S1)))
       ELSE IF s = Recorder THEN [S1 EXCEPT !.seen = new]
       ELSE IF Throws(s) THEN [S1 EXCEPT !.err = Append(@, s)]
       ELSE S1

\* subscribers.forEach((subscriber) => subscriber(newValue, oldValue))
InvokeAll(S, c, arr, new, old) ==
  IF arr = <<>> THEN S
  ELSE InvokeAll(Invoke(S, c, arr[1], new, old), c, Tail(arr), new, old)

\* mutant of Deliver: the subscribers are called without awaiting any of them
DeliverWithoutAwait(S, c, new, old) ==
  HistoryPush(InvokeAll(S, c, S.subscribers[c], new, old), c, new)

\* mutant of Deliver: the error of a subscriber is caught and the loop goes on
DeliverCatching(S, c, new, old) ==
  LET arr == S.subscribers[c]
  IN IF arr = <<>>
       THEN HistoryPush(S, c, new)
       ELSE LET S1 == Invoke(S, c, arr[1], new, old)
            IN [S1 EXCEPT !.tasks = Append(@,
                  [cell |-> c, newValue |-> new, oldValue |-> old,
                   arr |-> S1.subscribers[c],
                   live |-> S1.subscribers[c] = arr,
                   idx |-> 1, reg |-> arr,
                   inv |-> <<Call(arr[1], c, new, old)>>])]

\* mutant of Deliver: the first subscriber gets (oldValue, newValue)
DeliverSwapped(S, c, new, old) ==
  LET arr == S.subscribers[c]
  IN IF arr = <<>>
       THEN HistoryPush(S, c, new)
       ELSE LET S1 == Invoke(S, c, arr[1], old, new)
            IN IF Throws(arr[1])
                 THEN S1
                 ELSE [S1 EXCEPT !.tasks = Append(@,
                         [cell |-> c, newValue |-> new, oldValue |-> old,
                          arr |-> S1.subscribers[c],
                          live |-> S1.subscribers[c] = arr,
                          idx |-> 1, reg |-> arr,
                          inv |-> <<Call(arr[1], c, old, new)>>])]

\* for (const subscriber of this._subscribers) { await subscriber(..) }
\* this._history.push(newValue): the run up to the first await.  An error of
\* the awaited subscriber ends the async function: no later subscriber, no push.
Deliver(S, c, new, old) ==
  LET arr == S.subscribers[c]
  IN IF arr = <<>>
       THEN HistoryPush(S, c, new)
       ELSE LET S1 == Invoke(S, c, arr[1], new, old)
            IN IF Throws(arr[1])
                 THEN S1
                 ELSE [S1 EXCEPT !.tasks = Append(@,
                         [cell |-> c, newValue |-> new, oldValue |-> old,
                          arr |-> S1.subscribers[c],
                          live |-> S1.subscribers[c] = arr,
                          idx |-> 1, reg |-> arr,
                          inv |-> <<Call(arr[1], c, new, old)>>])]

\* mutant of notify: the throttle gate does not return while the window is active
notifyNoThrottleDrop(S, c, new, old) ==
  IF S.state[c] = "muted" THEN S
  ELSE IF new = old THEN S
  ELSE LET S1 == IF options[c].throttle
                   THEN [S EXCEPT !.throttleTimeout[c] = TRUE]
                   ELSE S
       IN IF options[c].debounce
            THEN [S1 EXCEPT !.debounceTimeout[c] =
                    [pending |-> TRUE, newValue |-> new, oldValue |-> old,
                     first |-> IF S.debounceTimeout[c].pending
                                 THEN S.debounceTimeout[c].first
                                 ELSE old]]
            ELSE Deliver(S1, c, new, old)

\* mutant of notify: no equality short-circuit
notifyNoEqualityCheck(S, c, new, old) ==
  IF S.state[c] = "muted" THEN S
  ELSE IF options[c].throttle /\ S.throttleTimeout[c] THEN S
  ELSE LET S1 == IF options[c].throttle
                   THEN [S EXCEPT !.throttleTimeout[c] = TRUE]
                   ELSE S
       IN IF options[c].debounce
            THEN [S1 EXCEPT !.debounceTimeout[c] =
                    [pending |-> TRUE, newValue |-> new, oldValue |-> old,
                     first |-> IF S.debounceTimeout[c].pending
                                 THEN S.debounceTimeout[c].first
                                 ELSE old]]
            ELSE Deliver(S1, c, new, old)

\* mutant of notify: no mute gate
notifyNoMuteGate(S, c, new, old) ==
  IF new = old THEN S
  ELSE IF options[c].throttle /\ S.throttleTimeout[c] THEN S
  ELSE LET S1 == IF options[c].throttle
                   THEN [S EXCEPT !.throttleTimeout[c] = TRUE]
                   ELSE S
       IN IF options[c].debounce
            THEN [S1 EXCEPT !.debounceTimeout[c] =
                    [pending |-> TRUE, newValue |-> new, oldValue |-> old,
                     first |-> IF S.debounceTimeout[c].pending
                                 THEN S.debounceTimeout[c].first
                                 ELSE old]]
            ELSE Deliver(S1, c, new, old)

\* _notify(newValue, oldValue), up to its first await
notify(S, c, new, old) ==
  IF S.state[c] = "muted" THEN S
  ELSE IF new = old THEN S
  ELSE IF options[c].throttle /\ S.throttleTimeout[c] THEN S
  ELSE LET S1 == IF options[c].throttle
                   THEN [S EXCEPT !.throttleTimeout[c] = TRUE]
                   ELSE S
       IN IF options[c].debounce
            THEN [S1 EXCEPT !.debounceTimeout[c] =
                    [pending |-> TRUE, newValue |-> new, oldValue |-> old,
                     first |-> IF S.debounceTimeout[c].pending
                                 THEN S.debounceTimeout[c].first
                                 ELSE old]]
            ELSE Deliver(S1, c, new, old)

\* set(newValue)
set(S, c, new) ==
  IF checkForSealedMutationError(S, c)
    THEN S
    ELSE notify([S EXCEPT !.value[c] = new], c, new, S.value[c])

\* the updater handed to update(): x => x + 1
updater(x) == x + 1

\* mutant of update: the updater is applied to the last history entry
updateFromHistory(S, c) == set(S, c, updater(S.history[c][Len(S.history[c])]))

\* update(updater)
update(S, c) == set(S, c, updater(S.value[c]))

\* get()
get(S, c) == S.value[c]

\* InputElementObservable's set value(value)
valueSetter(S, c, v) == set([S EXCEPT !.element = v], c, v)

\* the listener InputElementObservable registers for the element's change and
\* input events: this.value = inputElement.value
onInput(S, c) == valueSetter(S, c, S.element)

\* how a sealed cell's error reaches the caller: set is an async function, so
\* the error thrown inside it becomes the rejection of the promise it returns
setOutcome(S, c) == IF checkForSealedMutationError(S, c) THEN "reject" ELSE "ok"

\* mute and unmute are plain functions: the error is thrown to the caller
muteOutcome(S, c) == IF checkForSealedMutationError(S, c) THEN "throw" ELSE "ok"

\* this._subscribers.push(subscriber): the array object is shared with the
\* for-of loops suspended over it, which therefore see the new element
SubscribersPush(S, c, s) ==
  [S EXCEPT !.subscribers[c] = Append(@, s),
            !.tasks = [i \in 1..Len(S.tasks) |->
                         IF S.tasks[i].cell = c /\ S.tasks[i].live
                           THEN [S.tasks[i] EXCEPT !.arr = Append(@, s)]
                           ELSE S.tasks[i]]]

\* mutant of PreviousHistoryValue: the last entry instead of the one before it
PreviousHistoryValueLast(S, c) == S.history[c][Len(S.history[c])]

\* this._history[this._history.length - 2]
PreviousHistoryValue(S, c) ==
  IF Len(S.history[c]) >= 2 THEN S.history[c][Len(S.history[c]) - 1] ELSE Undefined

\* subscribe(subscriber)
subscribe(S, c, s) ==
  LET S1 == SubscribersPush(S, c, s)
  IN Invoke(S1, c, s, S1.value[c], PreviousHistoryValue(S1, c))

\* a fresh array replaces this._subscribers: the suspended loops keep the old one
ReplaceSubscribers(S, c, arr) ==
  [S EXCEPT !.subscribers[c] = arr,
            !.tasks = [i \in 1..Len(S.tasks) |->
                         IF S.tasks[i].cell = c
                           THEN [S.tasks[i] EXCEPT !.live = FALSE]
                           ELSE S.tasks[i]]]

\* mutant of Filter: the comparison is inverted
FilterInverted(arr, s) == SelectSeq(arr, LAMBDA x : x = s)

\* this._subscribers.filter((s) => s !== subscriber)
Filter(arr, s) == SelectSeq(arr, LAMBDA x : x # s)

\* mutant of unsubscribe: the subscriber is removed from the array in place,
\* under the loops suspended over it
unsubscribeInPlace(S, c, s) ==
  [S EXCEPT !.subscribers[c] = Filter(@, s),
            !.tasks = [i \in 1..Len(S.tasks) |->
                         IF S.tasks[i].cell = c /\ S.tasks[i].live
                           THEN [S.tasks[i] EXCEPT !.arr = Filter(@, s)]
                           ELSE S.tasks[i]]]

\* the closure subscribe() returns
unsubscribe(S, c, s) == ReplaceSubscribers(S, c, Filter(S.subscribers[c], s))

\* seal()
seal(S, c) == [ReplaceSubscribers(S, c, <<>>) EXCEPT !.state[c] = "sealed"]

\* mute()
mute(S, c) ==
  IF checkForSealedMutationError(S, c) THEN S ELSE [S EXCEPT !.state[c] = "muted"]

\* unmute()
unmute(S, c) ==
  IF checkForSealedMutationError(S, c) THEN S ELSE [S EXCEPT !.state[c] = "unsealed"]

\* mutant of teardown: only the first unsubscriber is called
teardownFirstOnly(S) == unsubscribe(S, "a", BindSubOf("a"))

\* bind(dependencies, compute) with dependencies = [a, b], called on t
bind(S) ==
  LET S1 == subscribe(S, "a", BindSubOf("a"))
      S2 == subscribe(S1, "b", BindSubOf("b"))
  IN set(S2, "t", compute(DependencyValues(S2)))

\* bind(dependencies, compute) with a compute that raises an error: the
\* closures are subscribed (their first run fails), then compute, called for
\* the argument of this.set, raises its error out of bind before set is called
bindFailing(S) ==
  LET S1 == subscribe(S, "a", FailSubOf("a"))
      S2 == subscribe(S1, "b", FailSubOf("b"))
  IN [S2 EXCEPT !.err = Append(@, "compute")]

\* the closure bind() returns: for (const unsubscriber of unsubscribers) unsubscriber()
teardown(S) ==
  LET S1 == unsubscribe(S, "a", BindSubOf("a"))
  IN unsubscribe(S1, "b", BindSubOf("b"))

\* the continuation of a suspended _notify: the next subscriber of the array
\* it iterates, or, past the last one, this._history.push(newValue)
RemoveAt(seq, i) == SubSeq(seq, 1, i - 1) \o SubSeq(seq, i + 1, Len(seq))

resume(S, i) ==
  LET k == S.tasks[i]
  IN IF k.idx < Len(k.arr)
       THEN LET s  == k.arr[k.idx + 1]
                S1 == [S EXCEPT !.tasks[i].idx = k.idx + 1,
                                !.tasks[i].inv =
                                   Append(@, Call(s, k.cell, k.newValue, k.oldValue))]
                S2 == Invoke(S1, k.cell, s, k.newValue, k.oldValue)
            IN IF Throws(s) THEN [S2 EXCEPT !.tasks = RemoveAt(@, i)] ELSE S2
       ELSE HistoryPush([S EXCEPT !.tasks = RemoveAt(@, i)], k.cell, k.newValue)

\* the debounce timer's callback (the async arrow function given to setTimeout)
debounceFire(S, c) ==
  LET d == S.debounceTimeout[c]
  IN Deliver([S EXCEPT !.debounceTimeout[c] = NoTimer], c, d.newValue, d.oldValue)

\* the throttle timer's callback: this._throttleTimeout = null
throttleFire(S, c) == [S EXCEPT !.throttleTimeout[c] = FALSE]

\* ---------------------------------------------------------------- actions
Op(name, c, v, first, res, S, fin) ==
  [op |-> name, cell |-> c, val |-> v, first |-> first, res |-> res,
   out |-> S.out, fin |-> fin, err |-> S.err]

WithinBounds(S) ==
  /\ Len(S.tasks) <= limits.tasks
  /\ \A c \in Cells : /\ Len(S.history[c]) <= limits.hist
                      /\ Len(S.subscribers[c]) <= MaxSubs

Commit(S, op) ==
  /\ WithinBounds(S)
  /\ state' = S.state
  /\ subscribers' = S.subscribers
  /\ value' = S.value
  /\ history' = S.history
  /\ debounceTimeout' = S.debounceTimeout
  /\ throttleTimeout' = S.throttleTimeout
  /\ tasks' = S.tasks
  /\ lastOp' = op
  /\ element' = S.element
  /\ seen' = S.seen
  /\ UNCHANGED <<options, limits>>

\* bookkeeping for the binding: a dependency changed its value while muted
\* ("source"), or the target was written or sealed by the user ("target")
Bypass(c, changes, seals) ==
  bypassed' =
    IF binding # "active" THEN bypassed
    ELSE IF c = "t" /\ (changes \/ seals) THEN bypassed \cup {"target"}
    ELSE IF c # "t" /\ changes /\ state[c] = "muted" THEN bypassed \cup {"source"}
    ELSE bypassed

Set(c, v) ==
  /\ Commit(set(Cur, c, v),
            Op("set", c, v, 0, setOutcome(Cur, c), set(Cur, c, v), <<>>))
  /\ Bypass(c, v # value[c], FALSE)
  /\ UNCHANGED <<handles, binding>>

\* update(updater) with updater = x => x + 1: this.set(updater(this.get()))
Update(c) ==
  /\ value[c] < limits.val
  /\ Commit(update(Cur, c),
            Op("update", c, updater(value[c]), 0, setOutcome(Cur, c),
               update(Cur, c), <<>>))
  /\ Bypass(c, TRUE, FALSE)
  /\ UNCHANGED <<handles, binding>>

\* s1 names the subscriber function a cell sees first, s2 the second one
Subscribe(c, s) ==
  /\ s = "s2" => "s1" \in handles[c]
  /\ Commit(subscribe(Cur, c, s),
            Op("subscribe", c, 0, 0, "ok", subscribe(Cur, c, s), <<>>))
  /\ handles' = [handles EXCEPT ![c] = @ \cup {s}]
  /\ UNCHANGED <<binding, bypassed>>

Unsubscribe(c, s) ==
  /\ s \in handles[c]
  /\ Commit(unsubscribe(Cur, c, s),
            Op("unsubscribe", c, s, 0, "ok", unsubscribe(Cur, c, s), <<>>))
  /\ UNCHANGED <<handles, binding, bypassed>>

Seal(c) ==
  /\ Commit(seal(Cur, c), Op("seal", c, 0, 0, "ok", seal(Cur, c), <<>>))
  /\ Bypass(c, FALSE, TRUE)
  /\ UNCHANGED <<handles, binding>>

Mute(c) ==
  /\ Commit(mute(Cur, c),
            Op("mute", c, 0, 0, muteOutcome(Cur, c), mute(Cur, c), <<>>))
  /\ UNCHANGED <<handles, binding, bypassed>>

Unmute(c) ==
  /\ Commit(unmute(Cur, c),
            Op("unmute", c, 0, 0, muteOutcome(Cur, c), unmute(Cur, c), <<>>))
  /\ UNCHANGED <<handles, binding, bypassed>>

ThrottleFire(c) ==
  /\ throttleTimeout[c]
  /\ Commit(throttleFire(Cur, c),
            Op("throttleFire", c, 0, 0, "ok", throttleFire(Cur, c), <<>>))
  /\ UNCHANGED <<handles, binding, bypassed>>

DebounceFire(c) ==
  /\ debounceTimeout[c].pending
  /\ Commit(debounceFire(Cur, c),
            Op("debounceFire", c, debounceTimeout[c].newValue,
               debounceTimeout[c].first, "ok", debounceFire(Cur, c), <<>>))
  /\ UNCHANGED <<handles, binding, bypassed>>

Resume(i) ==
  /\ i \in 1..Len(tasks)
  /\ Commit(resume(Cur, i),
            Op("resume", tasks[i].cell, tasks[i].newValue, 0, "ok",
               resume(Cur, i),
               IF tasks[i].idx < Len(tasks[i].arr) THEN <<>> ELSE <<tasks[i]>>))
  /\ UNCHANGED <<handles, binding, bypassed>>

\* cell.value = v on the input-bound cell
SetValue(c, v) ==
  /\ Commit(valueSetter(Cur, c, v),
            Op("setValue", c, v, 0, setOutcome(Cur, c), valueSetter(Cur, c, v), <<>>))
  /\ UNCHANGED <<handles, binding, bypassed>>

\* the user edits the element's content to e; the element fires its event
InputEvent(c, e) ==
  /\ Commit(onInput([Cur EXCEPT !.element = e], c),
            Op("input", c, e, 0, "ok", onInput([Cur EXCEPT !.element = e], c), <<>>))
  /\ UNCHANGED <<handles, binding, bypassed>>

Bind ==
  /\ binding = "none"
  /\ Commit(bind(Cur), Op("bind", "t", 0, 0, "ok", bind(Cur), <<>>))
  /\ binding' = "active"
  /\ UNCHANGED <<handles, bypassed>>

BindFailing ==
  /\ binding = "none"
  /\ Commit(bindFailing(Cur), Op("bind", "t", 0, 0, "throw", bindFailing(Cur), <<>>))
  /\ binding' = "failed"
  /\ UNCHANGED <<handles, bypassed>>

Teardown ==
  /\ binding # "none"
  /\ Commit(teardown(Cur),
            Op("teardown", "t", 0, 0, "ok", teardown(Cur), <<>>))
  /\ binding' = "torn"
  /\ UNCHANGED <<handles, bypassed>>

\* ---------------------------------------------------------- specifications
NoOp == [op |-> "new", cell |-> "t", val |-> 0, first |-> 0, res |-> "ok",
         out |-> <<>>, fin |-> <<>>, err |-> <<>>]

Limits(t, h, v) == [tasks |-> t, hist |-> h, val |-> v]

\* new BasicObservable(value, options) for every cell, explored within lim;
\* el is the content of the input element
InitWithin(v0, opts, lim, el) ==
  /\ element = el
  /\ seen = Undefined
  /\ limits = lim
  /\ state = [c \in Cells |-> "unsealed"]
  /\ subscribers = [c \in Cells |-> <<>>]
  /\ value = v0
  /\ history = [c \in Cells |-> <<v0[c]>>]
  /\ options = opts
  /\ debounceTimeout = [c \in Cells |-> NoTimer]
  /\ throttleTimeout = [c \in Cells |-> FALSE]
  /\ tasks = <<>>
  /\ handles = [c \in Cells |-> {}]
  /\ binding = "none"
  /\ bypassed = {}
  /\ lastOp = NoOp

InitCells(v0, opts) == InitWithin(v0, opts, Limits(MaxTasks, MaxHist, MaxVal), 0)

NoOptions == [debounce |-> FALSE, throttle |-> FALSE]

\* one cell, t, created with 0 and a timing configuration drawn from cfgs
InitOne(cfgs) ==
  \E o \in cfgs :
    InitCells([c \in Cells |-> 0], [c \in Cells |-> IF c = "t" THEN o ELSE NoOptions])

UserNext(c) ==
  \/ \E v \in Values : Set(c, v)
  \/ Update(c)
  \/ \E s \in PlainSubs : Subscribe(c, s)
  \/ \E s \in PlainSubs : Unsubscribe(c, s)
  \/ Seal(c)
  \/ Mute(c)
  \/ Unmute(c)

ResumeNext == \E i \in 1..limits.tasks : Resume(i)

\* the cell t under every timing configuration
Init == InitOne([debounce : BOOLEAN, throttle : BOOLEAN])

Next ==
  \/ UserNext("t")
  \/ ThrottleFire("t")
  \/ DebounceFire("t")
  \/ ResumeNext

Spec == Init /\ [][Next]_vars

\* the cell t without throttle and debounce
InitPlain == InitOne({NoOptions})

NextPlain ==
  \/ UserNext("t")
  \/ ResumeNext

SpecPlain == InitPlain /\ [][NextPlain]_vars

\* the cell t with debounce and no throttle
InitDebounce == InitOne({[debounce |-> TRUE, throttle |-> FALSE]})

NextDebounce ==
  \/ UserNext("t")
  \/ DebounceFire("t")
  \/ ResumeNext

SpecDebounce == InitDebounce /\ [][NextDebounce]_vars

\* the cell t with throttle and no debounce
InitThrottle == InitOne({[debounce |-> FALSE, throttle |-> TRUE]})

NextThrottle ==
  \/ UserNext("t")
  \/ ThrottleFire("t")
  \/ ResumeNext

SpecThrottle == InitThrottle /\ [][NextThrottle]_vars

\* the cells a, b and t without timing configuration, t to be bound to [a, b]
InitBind ==
  \E va \in Values, vb \in Values :
    InitCells([c \in Cells |-> IF c = "a" THEN va ELSE IF c = "b" THEN vb ELSE 0],
              [c \in Cells |-> NoOptions])

NextBind ==
  \/ Bind
  \/ Teardown
  \/ \E c \in {"a", "b"}, v \in Values : Set(c, v)
  \/ Mute("a")
  \/ Unmute("a")
  \/ Subscribe("a", "s1")
  \/ Unsubscribe("a", "s1")
  \/ ResumeNext

SpecBind == InitBind /\ [][NextBind]_vars

\* the cell t created with 0 under every timing configuration, written by
\* update only, with up to MaxInFlight notifications in flight
InitUpdate ==
  \E o \in [debounce : BOOLEAN, throttle : BOOLEAN] :
    InitWithin([c \in Cells |-> 0],
               [c \in Cells |-> IF c = "t" THEN o ELSE NoOptions],
               Limits(MaxInFlight, MaxLog, MaxUpdates), 0)

NextUpdate ==
  \/ Update("t")
  \/ \E s \in PlainSubs : Subscribe("t", s)
  \/ \E s \in PlainSubs : Unsubscribe("t", s)
  \/ ThrottleFire("t")
  \/ DebounceFire("t")
  \/ ResumeNext

SpecUpdate == InitUpdate /\ [][NextUpdate]_vars

\* the input-bound cell t, new InputElementObservable(element) as the factory
\* creates it (index.ts passes no options), over an element holding e
InitInput ==
  \E e \in Values :
    InitWithin([c \in Cells |-> IF c = "t" THEN e ELSE 0],
               [c \in Cells |-> NoOptions],
               Limits(MaxTasks, MaxHist, MaxVal), e)

NextInput ==
  \/ \E e \in Values : InputEvent("t", e)
  \/ \E v \in Values : SetValue("t", v)
  \/ UserNext("t")
  \/ ResumeNext

SpecInput == InitInput /\ [][NextInput]_vars

\* the cell t without timing configuration, never muted or sealed, with up to
\* MaxInFlight notifications in flight at once; its subscribers are s1 and
\* the recorder
InitOverlap ==
  InitWithin([c \in Cells |-> 0], [c \in Cells |-> NoOptions],
             Limits(MaxInFlight, MaxLog, MaxVal), 0)

NextOverlap ==
  \/ \E v \in Values : Set("t", v)
  \/ \E s \in {"s1", Recorder} : Subscribe("t", s)
  \/ \E s \in {"s1", Recorder} : Unsubscribe("t", s)
  \/ ResumeNext

SpecOverlap == InitOverlap /\ [][NextOverlap]_vars

\* the cells a and b without timing configuration; a's subscribers are s1, a
\* subscriber that raises an error, and the closure of a bind whose compute
\* raises an error
InitThrow == InitCells([c \in Cells |-> 0], [c \in Cells |-> NoOptions])

NextThrow ==
  \/ \E c \in {"a", "b"}, v \in Values : Set(c, v)
  \/ \E s \in {"s1", Thrower} : Subscribe("a", s)
  \/ \E s \in {"s1", Thrower} : Unsubscribe("a", s)
  \/ BindFailing
  \/ ResumeNext

SpecThrow == InitThrow /\ [][NextThrow]_vars

\* ------------------------------------------------------------------ claims
Last(seq) == seq[Len(seq)]

\* no debounce timer pending and no notification in flight
Quiescent(c) == /\ ~debounceTimeout[c].pending
                /\ \A i \in 1..Len(tasks) : tasks[i].cell # c

\* C1: once a cell is sealed its subscriber list is empty in every later
\* state, and its value and its state never change again.
C1_SealedIsFrozen ==
  /\ [](state["t"] = "sealed" => subscribers["t"] = <<>>)
  /\ [][state["t"] = "sealed" => /\ value'["t"] = value["t"]
                                 /\ state'["t"] = "sealed"]_vars

\* C2: on a sealed cell set, mute and unmute fail with the error raised
\* synchronously to the caller (a throw), and leave value, state, subscribers
\* and history unchanged.
C2_SealedMutationThrows ==
  [][(state["t"] = "sealed" /\ lastOp'.op \in {"set", "mute", "unmute"})
       => /\ lastOp'.res = "throw"
          /\ UNCHANGED <<value, state, subscribers, history>>]_vars

\* C3: the history is never empty, and in every quiescent state its last
\* element is the cell's current value.
C3_HistoryEndsWithValue ==
  /\ Len(history["t"]) >= 1
  /\ Quiescent("t") => Last(history["t"]) = value["t"]

\* the step just taken was set(v) or update(x => x + 1) on cell c
IsSet(c) == lastOp'.cell = c /\ lastOp'.op \in {"set", "update"}

\* the step starts the delivery of (v, old) to the subscribers of c: the first
\* registered subscriber is invoked within the step and the notification is
\* suspended on it; with no subscriber the notification completes at once
DeliveryStarts(c, v, old) ==
  IF subscribers[c] = <<>>
    THEN /\ lastOp'.out = <<>>
         /\ tasks' = tasks
         /\ history'[c] = Append(history[c], v)
    ELSE /\ lastOp'.out = <<Call(subscribers[c][1], c, v, old)>>
         /\ Len(tasks') = Len(tasks) + 1
         /\ Last(tasks').cell = c
         /\ Last(tasks').newValue = v
         /\ Last(tasks').oldValue = old
         /\ Last(tasks').reg = subscribers[c]
         /\ Last(tasks').idx = 1
         /\ history' = history

\* the step arms the debounce timer of c with (v, old)
DebounceArmed(c, v, old) ==
  /\ debounceTimeout'[c].pending
  /\ debounceTimeout'[c].newValue = v
  /\ debounceTimeout'[c].oldValue = old
  /\ lastOp'.out = <<>>
  /\ UNCHANGED <<tasks, history>>

\* what notification k has done so far: the subscribers registered when its
\* delivery started head the array it iterates, and it has invoked the first
\* k.idx entries of that array, once each, in order, with its own arguments
InOrder(k) ==
  /\ k.idx <= Len(k.arr)
  /\ Len(k.reg) <= Len(k.arr)
  /\ SubSeq(k.arr, 1, Len(k.reg)) = k.reg
  /\ k.inv = [i \in 1..k.idx |-> Call(k.arr[i], k.cell, k.newValue, k.oldValue)]

PassesGates(c, v) ==
  /\ state[c] = "unsealed"
  /\ v # value[c]
  /\ ~(options[c].throttle /\ throttleTimeout[c])

C5_DebounceCarriesBurst ==
  (lastOp.op = "debounceFire" /\ subscribers["t"] # <<>>)
    => lastOp.out = <<Call(subscribers["t"][1], "t", value["t"], lastOp.first)>>

\* C6: under throttle (no debounce) a set made while the window is active is
\* dropped: it replaces the value and leaves no notification behind, neither
\* started nor queued; a value-changing set made while no window is active
\* starts a delivery and opens the window; the window's expiry delivers
\* nothing.
C6_ThrottleDropsInsideWindow ==
  /\ [][(IsSet("t") /\ throttleTimeout["t"] /\ state["t"] # "sealed")
          => /\ value'["t"] = lastOp'.val
             /\ lastOp'.out = <<>>
             /\ UNCHANGED <<tasks, history, throttleTimeout, debounceTimeout,
                            subscribers, state>>]_vars
  /\ [][(IsSet("t") /\ ~throttleTimeout["t"] /\ PassesGates("t", lastOp'.val))
          => /\ DeliveryStarts("t", lastOp'.val, value["t"])
             /\ throttleTimeout'["t"]]_vars
  /\ [][lastOp'.op = "throttleFire"
          => /\ ~throttleTimeout'["t"]
             /\ lastOp'.out = <<>>
             /\ UNCHANGED <<tasks, history, value, subscribers, state,
                            debounceTimeout>>]_vars

\* set(1) notifies (1, 0) although the history already ends with 1: a set(0)
\* was dropped in between and the window has expired since
C6_Witness ==
  /\ options["t"].throttle
  /\ lastOp.op = "set"
  /\ lastOp.out = <<Call("s1", "t", 1, 0)>>
  /\ history["t"] = <<0, 1>>
  /\ throttleTimeout["t"]
  /\ Len(tasks) = 1

\* C9: set(v) with v = get() invokes no subscriber and leaves value, state,
\* subscribers, history, the timers and the notifications in flight as they
\* were.
C9_SameValueSetIsNoOp ==
  [][(lastOp'.op = "set" /\ lastOp'.val = value["t"])
       => /\ lastOp'.out = <<>>
          /\ UNCHANGED <<value, state, subscribers, history, debounceTimeout,
                         throttleTimeout, tasks>>]_vars

\* set(1) on an unmuted cell holding 1, with a subscriber and no timing
\* configuration: a set that changed the value would have left a notification
\* in flight
C9_Witness ==
  /\ options["t"] = NoOptions
  /\ lastOp.op = "set"
  /\ lastOp.val = 1
  /\ value["t"] = 1
  /\ state["t"] = "unsealed"
  /\ subscribers["t"] = <<"s1">>
  /\ history["t"] = <<0, 1>>
  /\ tasks = <<>>

\* C10: mute and unmute change the state flag only; a set on a muted cell
\* replaces the value, invokes no subscriber and appends nothing to the
\* history; the set after an unmute notifies again.
C10_MuteOnlySuppresses ==
  /\ [][lastOp'.op \in {"mute", "unmute"}
          => /\ state'["t"] = IF state["t"] = "sealed" THEN "sealed"
                              ELSE IF lastOp'.op = "mute" THEN "muted"
                              ELSE "unsealed"
             /\ lastOp'.out = <<>>
             /\ UNCHANGED <<subscribers, history, value, tasks, debounceTimeout,
                            throttleTimeout>>]_vars
  /\ [][(IsSet("t") /\ state["t"] = "muted")
          => /\ value'["t"] = lastOp'.val
             /\ lastOp'.out = <<>>
             /\ UNCHANGED <<subscribers, history, state, tasks, debounceTimeout,
                            throttleTimeout>>]_vars
  /\ [][(lastOp.op = "unmute" /\ IsSet("t") /\ PassesGates("t", lastOp'.val))
          => IF options["t"].debounce
               THEN DebounceArmed("t", lastOp'.val, value["t"])
               ELSE DeliveryStarts("t", lastOp'.val, value["t"])]_vars

\* set(0) notifies (0, 1) while the history is still <<0>> and nothing else is
\* in flight: the 1 was set while the cell was muted, and the cell has been
\* unmuted since
C10_Witness ==
  /\ options["t"] = NoOptions
  /\ lastOp.op = "set"
  /\ lastOp.out = <<Call("s1", "t", 0, 1)>>
  /\ history["t"] = <<0>>
  /\ state["t"] = "unsealed"
  /\ Len(tasks) = 1

\* the target holds compute over the current values of its dependencies
Computed == value["t"] = compute(<<value["a"], value["b"]>>)

\* the handler that ran last invoked a closure of the binding
BindingRan(op) == \E i \in 1..Len(op.out) : op.out[i].sub \in BindSubs

\* no notification of any cell is in flight (no cell of the binding has a timer)
NothingPending == tasks = <<>>

C8_TeardownStopsBinding ==
  /\ [][binding = "torn" => ~BindingRan(lastOp')]_vars
  /\ [](binding = "torn"
          => \A c \in Cells : \A i \in 1..Len(subscribers[c]) :
               subscribers[c][i] \notin BindSubs)
  /\ [][(binding = "torn" /\ lastOp'.op = "teardown")
          => /\ lastOp'.res = "ok"
             /\ UNCHANGED <<value, state, subscribers, history>>]_vars

\* C8 amended: once teardown has been called the binding's closures are in no
\* subscriber list, and no notification that starts after the call (a set, a
\* timer, a subscribe) runs the binding: only a notification that was already
\* in flight on a dependency when teardown was called, and had not reached the
\* closure yet, still runs it when it resumes.  A second call of teardown
\* leaves every cell's value, state, subscriber list and history as they were
\* and raises no error.
C8_TeardownStopsNewNotifications ==
  /\ [][(binding = "torn" /\ BindingRan(lastOp'))
          => /\ lastOp'.op = "resume"
             /\ \E i \in 1..Len(tasks) :
                  /\ ~tasks[i].live
                  /\ tasks[i].idx < Len(tasks[i].arr)
                  /\ tasks[i].arr[tasks[i].idx + 1] \in BindSubs]_vars
  /\ [](binding = "torn"
          => \A c \in Cells : \A i \in 1..Len(subscribers[c]) :
               subscribers[c][i] \notin BindSubs)
  /\ [][(binding = "torn" /\ lastOp'.op = "teardown")
          => /\ lastOp'.res = "ok"
             /\ UNCHANGED <<value, state, subscribers, history>>]_vars

\* after teardown a has changed, its notification has completed, and the
\* target has not followed
C8_Witness ==
  /\ binding = "torn"
  /\ bypassed = {}
  /\ lastOp.op = "resume"
  /\ lastOp.fin # <<>>
  /\ lastOp.fin[1].cell = "a"
  /\ lastOp.fin[1].arr = <<"s1">>
  /\ ~Computed

\* C11: subscribe(fn) appends fn to the subscriber list and invokes fn exactly
\* once before it returns, with the cell's current value as new value and the
\* second-to-last history entry (undefined when the history has one entry) as
\* old value; it invokes no other subscriber and starts no notification.
C11_SubscribeInvokesOnce ==
  [][lastOp'.op = "subscribe"
       => \E s \in PlainSubs :
            /\ subscribers'["t"] = Append(subscribers["t"], s)
            /\ lastOp'.out =
                 <<Call(s, "t", value["t"],
                        IF Len(history["t"]) >= 2
                          THEN history["t"][Len(history["t"]) - 1]
                          ELSE Undefined)>>
            /\ lastOp'.res = "ok"
            /\ Len(tasks') = Len(tasks)
            /\ \A i \in 1..Len(tasks) : tasks'[i].idx = tasks[i].idx
            /\ UNCHANGED <<value, state, history, debounceTimeout,
                           throttleTimeout>>]_vars

\* s2 is subscribed after s1 on a cell whose history is <<0, 1>>: it alone is
\* invoked, with (1, 0)
C11_Witness ==
  /\ lastOp.op = "subscribe"
  /\ subscribers["t"] = <<"s1", "s2">>
  /\ history["t"] = <<0, 1>>
  /\ lastOp.out = <<Call("s2", "t", 1, 0)>>

Range(seq) == {seq[i] : i \in 1..Len(seq)}

\* the notifications in flight are where they were, over the same subscribers
InFlightUntouched ==
  /\ Len(tasks') = Len(tasks)
  /\ \A i \in 1..Len(tasks) : /\ tasks'[i].arr = tasks[i].arr
                               /\ tasks'[i].idx = tasks[i].idx
                               /\ tasks'[i].inv = tasks[i].inv

\* C12: calling the unsubscribe handle of s removes s from the list and leaves
\* every other subscriber's registration and the order of the remaining
\* subscribers unchanged; a call made when s is no longer in the list leaves
\* the list as it is; no call raises an error, invokes a subscriber or changes
\* value, state, history or a timer.  No handler other than subscribe, an
\* unsubscribe handle and seal changes the subscriber list.
C12_UnsubscribeRemovesOnlyItsSubscriber ==
  /\ [][lastOp'.op = "unsubscribe"
          => /\ lastOp'.val \notin Range(subscribers'["t"])
             /\ SelectSeq(subscribers["t"], LAMBDA x : x # lastOp'.val)
                  = subscribers'["t"]
             /\ (lastOp'.val \notin Range(subscribers["t"])
                   => subscribers'["t"] = subscribers["t"])
             /\ lastOp'.res = "ok"
             /\ lastOp'.out = <<>>
             /\ InFlightUntouched
             /\ UNCHANGED <<value, state, history, debounceTimeout,
                            throttleTimeout>>]_vars
  /\ [][subscribers'["t"] # subscribers["t"]
          => lastOp'.op \in {"subscribe", "unsubscribe", "seal"}]_vars

\* the handle of s1 has been called while a notification over <<s1, s2>> was
\* in flight: s2 alone is left in the list
C12_Witness ==
  /\ lastOp.op = "unsubscribe"
  /\ lastOp.val = "s1"
  /\ subscribers["t"] = <<"s2">>
  /\ Len(tasks) = 1
  /\ tasks[1].arr = <<"s1", "s2">>

\* C13: update(x => x + 1) does what set(get() + 1) does: the new value is
\* visible as soon as update returns, also when the notification is delayed
\* (debounce) or dropped (throttle), and the notification is the one set
\* starts.  On a cell created with 0 and no timing configuration, the i-th of
\* k successive updates starts one notification cycle carrying (i, i-1), no
\* other step starts one, and once the cycles have completed get() = k and the
\* history has k appended entries, one for each of 1..k.
C13_UpdateIsSetOfUpdatedValue ==
  /\ [][lastOp'.op = "update"
          => /\ value'["t"] = value["t"] + 1
             /\ lastOp'.res = "ok"
             /\ IF PassesGates("t", value["t"] + 1)
                  THEN IF options["t"].debounce
                         THEN DebounceArmed("t", value["t"] + 1, value["t"])
                         ELSE DeliveryStarts("t", value["t"] + 1, value["t"])
                  ELSE /\ lastOp'.out = <<>>
                       /\ UNCHANGED <<tasks, history, debounceTimeout>>]_vars
  /\ [][(options["t"] = NoOptions /\ Len(tasks') > Len(tasks))
          => lastOp'.op = "update"]_vars
  /\ []((options["t"] = NoOptions /\ Quiescent("t"))
          => /\ Len(history["t"]) = value["t"] + 1
             /\ history["t"][1] = 0
             /\ Range(history["t"]) = 0..value["t"])

\* two updates, each notified to s1, have completed: get() = 2 and two entries
\* have been appended
C13_Witness ==
  /\ options["t"] = NoOptions
  /\ value["t"] = 2
  /\ subscribers["t"] = <<"s1">>
  /\ history["t"] = <<0, 1, 2>>
  /\ tasks = <<>>
  /\ lastOp.op = "resume"
  /\ lastOp.fin # <<>>
  /\ lastOp.fin[1].newValue = 2

\* C14: for the input-bound cell, get() returns the element's content after
\* construction and after every transition, and every write to the cell (set,
\* update, the value property) has been written through to the element.
C14_CellMirrorsElement ==
  /\ [](get(Cur, "t") = element)
  /\ [][(lastOp'.op \in {"set", "update", "setValue"} /\ lastOp'.res = "ok")
          => element' = lastOp'.val]_vars

\* C15: a sealed cell is inert: in no step taken after the seal does the
\* notification pipeline (a debounce timer firing, a notification in flight
\* resuming) invoke a subscriber of the cell or append to its history.
C15_SealedCellIsInert ==
  [][state["t"] = "sealed"
       => /\ history'["t"] = history["t"]
          /\ (lastOp'.op \in {"debounceFire", "resume"} => lastOp'.out = <<>>)]_vars

\* C16: the history is append-only and chronological: its first entry is the
\* initial value, a step changes it only by appending one entry, and the
\* entry appended belongs to the oldest set whose notification is still
\* outstanding (a notification that completes is the oldest one in flight,
\* and a set appends at once only when none is in flight).
C16_HistoryIsChronological ==
  /\ [](history["t"][1] = 0)
  /\ [][history'["t"] # history["t"]
          => /\ Len(history'["t"]) = Len(history["t"]) + 1
             /\ SubSeq(history'["t"], 1, Len(history["t"])) = history["t"]
             /\ IF lastOp'.op = "resume"
                  THEN lastOp'.fin = <<tasks[1]>>
                  ELSE tasks = <<>>]_vars

\* C17: within one notification of a cell without throttle or debounce the
\* subscribers are invoked one at a time in registration order: a step
\* invokes at most one subscriber; a notification moves on to its next
\* subscriber only in the step that resumes it after the completion of the
\* previous one, and that subscriber is the next one of its list; the new
\* value is appended to the history only by the step that resumes the
\* notification after its last subscriber has completed (at once when the
\* list is empty).
C17_SubscribersRunOneAtATime ==
  /\ [][lastOp'.op \in {"set", "resume"} => Len(lastOp'.out) <= 1]_vars
  /\ [][lastOp'.op # "resume"
          => \A i \in 1..Len(tasks) : /\ i <= Len(tasks')
                                       /\ tasks'[i].idx = tasks[i].idx]_vars
  /\ [][(lastOp'.op = "resume" /\ lastOp'.fin = <<>>)
          => /\ history' = history
             /\ \E i \in 1..Len(tasks) :
                  /\ tasks[i].idx < Len(tasks[i].arr)
                  /\ lastOp'.out = <<Call(tasks[i].arr[tasks[i].idx + 1], "t",
                                          tasks[i].newValue, tasks[i].oldValue)>>
                  /\ tasks'[i].idx = tasks[i].idx + 1
                  /\ \A j \in 1..Len(tasks) \ {i} : tasks'[j].idx = tasks[j].idx]_vars
  /\ [][history'["t"] # history["t"]
          => IF lastOp'.op = "resume"
               THEN /\ lastOp'.out = <<>>
                    /\ lastOp'.fin[1].idx = Len(lastOp'.fin[1].arr)
                    /\ InOrder(lastOp'.fin[1])
                    /\ history'["t"] = Append(history["t"], lastOp'.fin[1].newValue)
               ELSE /\ lastOp'.op = "set"
                    /\ subscribers["t"] = <<>>
                    /\ history'["t"] = Append(history["t"], lastOp'.val)]_vars

\* the notification of set(1) has been resumed after s1 completed and has
\* invoked the recorder, its second subscriber; the history is still <<0>>
C17_Witness ==
  /\ lastOp.op = "resume"
  /\ lastOp.out = <<Call(Recorder, "t", 1, 0)>>
  /\ Len(tasks) = 1
  /\ tasks[1].arr = <<"s1", Recorder>>
  /\ tasks[1].idx = 2
  /\ history["t"] = <<0>>

\* C18: a subscriber whose unsubscribe handle has been called, and which has
\* not been subscribed again, is neither invoked nor taken into the cycle
\* when the pending debounce timer fires: the cycle is over the list as it is
\* at fire time.  An unsubscribe call leaves the notifications in flight as
\* they are, and a notification that resumes invokes the next subscriber of
\* the list it started with, whether or not it is still subscribed.
C18_UnsubscribeAndPendingNotifications ==
  /\ [][lastOp'.op = "debounceFire"
          => /\ \A s \in handles["t"] \ Range(subscribers["t"]) :
                  /\ \A j \in 1..Len(lastOp'.out) : lastOp'.out[j].sub # s
                  /\ Len(tasks') > Len(tasks) => s \notin Range(Last(tasks').arr)
             /\ Len(tasks') > Len(tasks) => Last(tasks').reg = subscribers["t"]]_vars
  /\ [][lastOp'.op = "unsubscribe" => InFlightUntouched]_vars
  /\ [][(lastOp'.op = "resume" /\ lastOp'.fin = <<>>)
          => \E i \in 1..Len(tasks) :
               /\ tasks[i].idx < Len(tasks[i].arr)
               /\ lastOp'.out = <<Call(tasks[i].arr[tasks[i].idx + 1], "t",
                                       tasks[i].newValue, tasks[i].oldValue)>>]_vars
  /\ [][(lastOp'.op = "resume" /\ lastOp'.fin # <<>>)
          => lastOp'.fin[1].idx = Len(lastOp'.fin[1].arr)]_vars

\* the debounced cycle over <<s1, s2>> has invoked s2 although the handle of
\* s2 was called after the timer fired: s1 alone is subscribed
C18_Witness ==
  /\ options["t"].debounce
  /\ lastOp.op = "resume"
  /\ lastOp.out = <<Call("s2", "t", 1, 0)>>
  /\ subscribers["t"] = <<"s1">>
  /\ Len(tasks) = 1
  /\ tasks[1].reg = <<"s1", "s2">>

\* the step invoked, for a notification of cell a, a function that raises an
\* error
NotificationFails ==
  /\ lastOp'.op \in {"set", "resume"}
  /\ lastOp'.cell = "a"
  /\ lastOp'.out # <<>>
  /\ Throws(lastOp'.out[1].sub)

\* C19: an error raised by a subscriber, or by compute inside a closure of
\* bind, during a notification is not caught: it leaves the pipeline as an
\* uncaught error, the notification ends there (the subscribers after the
\* failing one are not invoked for that cycle and the new value is not
\* appended to the history), the cell's value stays what the set made it (the
\* failure of a resumed notification does not touch it), and its state and
\* subscriber list are unchanged.
C19_SubscriberErrorEndsTheCycle ==
  /\ [][NotificationFails
          => /\ lastOp'.out = <<lastOp'.out[1]>>
             /\ lastOp'.err = <<lastOp'.out[1].sub>>
             /\ lastOp'.fin = <<>>
             /\ Len(tasks') = IF lastOp'.op = "set" THEN Len(tasks)
                                                    ELSE Len(tasks) - 1
             /\ \A i \in 1..Len(tasks') :
                  tasks'[i].arr[tasks'[i].idx] # lastOp'.out[1].sub
             /\ value'["a"] = IF lastOp'.op = "set" THEN lastOp'.val
                                                    ELSE value["a"]
             /\ UNCHANGED <<history, state, subscribers>>]_vars
  /\ [](\A i \in 1..Len(tasks) : ~Throws(tasks[i].arr[tasks[i].idx]))

\* set(1) on a with the failing subscriber ahead of s1: the failing one has
\* been invoked, s1 has not, nothing is in flight and the history is <<0>>
C19_Witness ==
  /\ lastOp.op = "set"
  /\ lastOp.cell = "a"
  /\ lastOp.out = <<Call(Thrower, "a", 1, 0)>>
  /\ lastOp.err = <<Thrower>>
  /\ subscribers["a"] = <<Thrower, "s1">>
  /\ value["a"] = 1
  /\ history["a"] = <<0>>
  /\ tasks = <<>>

\* C20: on an unmuted cell without throttle or debounce the subscribers
\* receive the notifications in the order of the sets: in every quiescent
\* state the new value most recently delivered to a registered subscriber (the
\* one the recorder stored last) is the cell's current value.
C20_LastDeliveredIsCurrentValue ==
  (Quiescent("t") /\ Recorder \in Range(subscribers["t"])) => seen = value["t"]

====
